---- MODULE Spec2Model ----
(***************************************************************************)
(* State-machine model of the DuckDB HR practice helpers: the connection  *)
(* factory and query helpers of db_utils.py, the result printer, and the  *)
(* schema/data loader of setup_database.py.  The embedded engine, the     *)
(* file system and pandas are modelled by what the code observes of them: *)
(* connect succeeds or raises, execute returns rows or raises, open/read  *)
(* returns text or raises, DataFrame.head follows iloc[:n].               *)
(***************************************************************************)
EXTENDS Integers, Sequences, FiniteSets, TLC

\* ---------------------------------------------------------------- bounds
MaxConns == 3      \* connections opened in one run of the model
MaxRows  == 3      \* largest row count of a literal result
MaxLimit == 2      \* largest row limit handed to the printer
MaxLoads == 2      \* successful seed loads per storage location
SeedRows == 2      \* rows each table receives from one seed load
MaxExtra == 1      \* rows inserted through the query helpers

\* ------------------------------------------------------------- constants
Tables == <<"regions", "countries", "locations", "departments", "jobs",
            "employees", "dependents">>

ConfigPath == "hr_database.duckdb"
OtherPath  == "other.duckdb"
Paths == {ConfigPath, OtherPath}

TuningOptions == [memory_limit |-> "2GB", threads |-> 4]
ConfigPy == [read_only |-> FALSE, config |-> TuningOptions]
ConfigTemplatePy == [path |-> ConfigPath, read_only |-> FALSE, config |-> TuningOptions]
ConfigBare == [path |-> ConfigPath]
EmptyDict == <<>>

None == "<None>"

\* ------------------------------------------------------------- variables
VARIABLES
  DATABASE_PATH,    \* config.DATABASE_PATH
  DATABASE_CONFIG,  \* config.DATABASE_CONFIG
  db,               \* storage location -> persisted engine state
  conns,            \* every connection the engine has handed out, in order
  held,             \* connections get_connection returned to its caller
  op,               \* the exposed operation being executed
  pc,               \* position inside it ("done": control is with the caller)
  args,             \* its arguments
  conn,             \* the connection it acquired (0: none)
  pending,          \* exception travelling out of a with/try block
  outcome,          \* what the caller receives
  out,              \* lines written to standard output by this call
  trace,            \* calls made to the engine and the file system by this call
  i,                \* loop index over Tables
  info,             \* table_info's local mapping, as a sequence of entries
  df,               \* print_query_results' local DataFrame (its rows)
  cols,             \* column labels carried by the materialised result
  script,           \* the entry point being run as a process ("none": no script)
  sstatus,          \* "running", "aborted" by an exception, or "finished"
  ip,               \* index of the script's next statement
  slog              \* what the script has done so far, statement by statement

cfgVars   == <<DATABASE_PATH, DATABASE_CONFIG>>
frameVars == <<op, pc, args, conn, pending, outcome, out, trace, i, info, df, cols>>
scriptVars == <<script, sstatus, ip, slog>>
vars == <<DATABASE_PATH, DATABASE_CONFIG, db, conns, held,
          op, pc, args, conn, pending, outcome, out, trace, i, info, df, cols,
          script, sstatus, ip, slog>>

\* --------------------------------------------------------------- helpers
Min(a, b) == IF a < b THEN a ELSE b
Max(a, b) == IF a > b THEN a ELSE b

\* dict.get(key, default)
DictGet(d, key, default) == IF key \in DOMAIN d THEN d[key] ELSE default

\* Python truthiness of an optional string (None and "" are falsy)
Truthy(x) == x # None /\ x # ""

\* the params argument: None, or a tuple of positional values
NoParams == [given |-> FALSE, values |-> <<>>]
Params(v) == [given |-> TRUE, values |-> v]
ParamsTruthy(p) == p.given /\ Len(p.values) > 0

\* a query text, abstracted to what the engine makes of it
Query(kind, table, n, ph) == [kind |-> kind, table |-> table, n |-> n, ph |-> ph]
RowsQuery(n, ph) == Query("rows", "", n, ph)
ExampleQuery(k)  == Query("select", "employees", k, 0)
CountQuery(t)    == Query("count", t, 1, 0)
DescribeQuery(t) == Query("describe", t, 0, 0)
ShowTablesQuery  == Query("show_tables", "", 0, 0)
InsertQuery      == Query("insert", "employees", 1, 0)
BadColumnQuery   == Query("bad_column", "employees", 0, 0)
SyntaxErrorQuery == Query("syntax_error", "", 0, 0)
SchemaSql        == Query("schema_sql", "", 0, 0)
DataSql          == Query("data_sql", "", 0, 0)

TableSet == {Tables[k] : k \in 1..Len(Tables)}

NoResult == [ok |-> FALSE, err |-> "none", rows |-> <<>>]
Rows(r)  == [ok |-> TRUE, err |-> "none", rows |-> r]
Raise(e) == [ok |-> FALSE, err |-> e, rows |-> <<>>]

\* ---------------------------------------------------------------- engine
\* duckdb.connect(database=..., read_only=..., config=...)
Connect(database, read_only, config) ==
  [database |-> database, read_only |-> read_only, config |-> config, open |-> TRUE]

ColumnsOf(t) == << <<t \o "_id">>, <<t \o "_name">> >>

\* rows of each table of a store
RowCount(store) == store.loads * SeedRows + store.extra

\* conn.execute(query[, params]) followed by fetchall()/df() on a store,
\* np being the number of positional parameters handed over
EngineExecute(store, q, np) ==
  CASE q.kind = "syntax_error" -> Raise("QueryError")
    [] q.kind = "bad_column"   -> Raise("QueryError")
    [] q.kind \in {"count", "describe", "select", "insert"}
         /\ ~(store.schema /\ q.table \in TableSet)
                               -> Raise("QueryError")
    [] np # q.ph               -> Raise("ParameterError")
    [] q.kind = "rows"         -> Rows([j \in 1..q.n |-> <<j>>])
    [] q.kind = "count"        -> Rows(<< <<RowCount(store)>> >>)
    [] q.kind = "select"       -> Rows([j \in 1..RowCount(store) |-> <<j>>])
    [] q.kind = "insert"       -> Rows(<< <<q.n>> >>)
    [] q.kind = "describe"     -> Rows(ColumnsOf(q.table))
    [] q.kind = "show_tables"  -> Rows(IF store.schema
                                       THEN [k \in 1..Len(Tables) |-> <<Tables[k]>>]
                                       ELSE <<>>)
    [] OTHER                   -> Raise("QueryError")

\* what conn.execute leaves in the store: the connection is read-write, so a
\* data-modifying statement that succeeds is applied
EngineEffect(store, q, np) ==
  IF q.kind = "insert" /\ EngineExecute(store, q, np).ok
    THEN [store EXCEPT !.extra = @ + q.n]
    ELSE store

\* one call observed by the engine or the file system
Ev(ev, path, q, np, ok) == [ev |-> ev, path |-> path, q |-> q, np |-> np, ok |-> ok]
NoQuery == Query("", "", 0, 0)

\* one line group written by print
Line(kind, text, rows, n, m) == [kind |-> kind, text |-> text, rows |-> rows, n |-> n, m |-> m]

RECURSIVE Repeat(_, _)
Repeat(s, n) == IF n <= 0 THEN "" ELSE s \o Repeat(s, n - 1)

\* DataFrame.head(n): iloc[:n], a negative n dropping the last -n rows
DfHead(rows, n) ==
  IF n >= 0 THEN SubSeq(rows, 1, Min(n, Len(rows)))
            ELSE SubSeq(rows, 1, Max(0, Len(rows) + n))

\* ----------------------------------------------------------------- frame
NoOutcome   == [kind |-> "none", err |-> "none", value |-> <<>>]
Returned(v) == [kind |-> "returned", err |-> "none", value |-> v]
Raised(e)   == [kind |-> "raised", err |-> e, value |-> <<>>]

Args(query, params, title, limit, db_path) ==
  [query |-> query, params |-> params, title |-> title, limit |-> limit, db_path |-> db_path]
NoArgs == Args(NoQuery, NoParams, None, 10, None)

\* the column labels of a query's projection list
Projection(q) ==
  CASE q.kind = "rows"        -> <<"n">>
    [] q.kind = "count"       -> <<"count_star()">>
    [] q.kind = "select"      -> <<"employee_id">>
    [] q.kind = "insert"      -> <<"Count">>
    [] q.kind = "describe"    -> <<"column_name">>
    [] q.kind = "show_tables" -> <<"name">>
    [] OTHER                  -> <<>>

\* what the statements of schema.sql leave in a store when they succeed:
\* the tables exist (all seven when the file is complete), and rows a store
\* already holds stay
SchemaEffect(store, complete) == [store EXCEPT !.schema = @ \/ complete]

\* what the statements of data.sql leave in a store when they succeed: the
\* seed rows once more
DataEffect(store) == [store EXCEPT !.loads = @ + 1]

\* operations that materialise with .df(): a DataFrame keeps the column
\* labels. The others use .fetchall(): a list of plain tuples, without labels
DfOps == {"query_to_dataframe", "print_query_results"}

\* operations whose body is a `with get_connection() as conn:` block
WithOps == {"execute_query", "query_to_dataframe", "show_tables", "describe_table",
            "table_info", "print_query_results"}

Init ==
  /\ DATABASE_PATH = ConfigPath
  /\ DATABASE_CONFIG \in {ConfigPy, ConfigTemplatePy, ConfigBare}
  /\ db = [p \in Paths |-> [schema |-> FALSE, loads |-> 0, extra |-> 0]]
  /\ conns = <<>>
  /\ held = {}
  /\ op = "none" /\ pc = "idle" /\ args = NoArgs /\ conn = 0
  /\ pending = "none" /\ outcome = NoOutcome /\ out = <<>> /\ trace = <<>>
  /\ i = 0 /\ info = <<>> /\ df = <<>> /\ cols = <<>>
  /\ script = "none" /\ sstatus = "none" /\ ip = 0 /\ slog = <<>>

\* a new frame for operation o with arguments a
Enter(o, a, first) ==
  /\ op' = o /\ args' = a /\ pc' = first /\ conn' = 0
  /\ pending' = "none" /\ outcome' = NoOutcome /\ out' = <<>> /\ trace' = <<>>
  /\ i' = 0 /\ info' = <<>> /\ df' = <<>> /\ cols' = <<>>
  /\ UNCHANGED <<cfgVars, db, conns, held, scriptVars>>

\* the caller invokes operation o with arguments a
Begin(o, a, first) ==
  /\ Len(conns) < MaxConns
  /\ Enter(o, a, first)

\* ----------------------------------------------------------- db_utils.py
\* get_connection, with read-only as the access mode of a configuration
\* that names none, and the tuning options left out
get_connectionDefaults(ok) ==
  /\ trace' = Append(trace, Ev("connect", DATABASE_PATH, NoQuery, 0, ok))
  /\ IF ok
        THEN /\ conns' = Append(conns, Connect(DATABASE_PATH,
                                               DictGet(DATABASE_CONFIG, "read_only", TRUE),
                                               EmptyDict))
             /\ conn' = Len(conns) + 1
        ELSE /\ conns' = conns
             /\ conn' = 0

\* get_connection(): one duckdb.connect with the configured settings
get_connection(ok) ==
  /\ trace' = Append(trace, Ev("connect", DATABASE_PATH, NoQuery, 0, ok))
  /\ IF ok
        THEN /\ conns' = Append(conns, Connect(DATABASE_PATH,
                                               DictGet(DATABASE_CONFIG, "read_only", FALSE),
                                               DictGet(DATABASE_CONFIG, "config", EmptyDict)))
             /\ conn' = Len(conns) + 1
        ELSE /\ conns' = conns
             /\ conn' = 0

CallGetConnection ==
  /\ pc = "idle"
  /\ Begin("get_connection", NoArgs, "connect")

\* get_connection called directly: the open connection goes to the caller
GetConnectionReturn ==
  /\ op = "get_connection" /\ pc = "connect"
  /\ \E ok \in BOOLEAN :
       /\ get_connection(ok)
       /\ outcome' = IF ok THEN Returned(<<Len(conns) + 1>>) ELSE Raised("ConnectionError")
       /\ held' = IF ok THEN held \cup {Len(conns) + 1} ELSE held
  /\ pc' = "done"
  /\ UNCHANGED <<cfgVars, scriptVars, db, cols, op, args, pending, out, i, info, df>>

\* the caller of get_connection closes the connection it was given
CallerClose ==
  /\ pc = "idle"
  /\ \E c \in held :
       /\ conns' = [conns EXCEPT ![c].open = FALSE]
       /\ held' = held \ {c}
  /\ UNCHANGED <<cfgVars, scriptVars, db, frameVars>>

\* inputs of the helper calls
QueryInputs == {RowsQuery(n, 0) : n \in 0..MaxRows}
                 \cup {RowsQuery(1, 1), CountQuery("employees"), InsertQuery,
                       BadColumnQuery, SyntaxErrorQuery}

\* the model follows a data-modifying query while the store has room
Admissible(q) == q.kind = "insert" => db[DATABASE_PATH].extra < MaxExtra
ParamInputs == {NoParams, Params(<<>>), Params(<<7>>)}
TitleInputs == {None, "", "Top"}
LimitInputs == (-2)..MaxLimit

CallExecuteQuery ==
  /\ pc = "idle"
  /\ \E q \in QueryInputs, p \in ParamInputs :
       /\ Admissible(q)
       /\ Begin("execute_query", Args(q, p, None, 10, None), "connect")

CallQueryToDataframe ==
  /\ pc = "idle"
  /\ \E q \in QueryInputs, p \in ParamInputs :
       /\ Admissible(q)
       /\ Begin("query_to_dataframe", Args(q, p, None, 10, None), "connect")

\* show_tables(): execute_query("SHOW TABLES")
CallShowTables ==
  /\ pc = "idle"
  /\ Begin("show_tables", Args(ShowTablesQuery, NoParams, None, 10, None), "connect")

\* describe_table(table_name): execute_query(f"DESCRIBE {table_name}")
CallDescribeTable ==
  /\ pc = "idle"
  /\ \E t \in {"employees", "nosuch"} :
    Begin("describe_table", Args(DescribeQuery(t), NoParams, None, 10, None), "connect")

CallTableInfo ==
  /\ pc = "idle"
  /\ Begin("table_info", NoArgs, "connect")

CallPrintQueryResults ==
  /\ pc = "idle"
  /\ \E q \in QueryInputs, t \in TitleInputs, l \in LimitInputs :
       /\ Admissible(q)
       /\ Begin("print_query_results", Args(q, NoParams, t, l, None), "title")

\* PrintTitle, with the underline of the self-test's header ("=" * 30) and
\* a test for None only
PrintTitleFixedWidth ==
  /\ op = "print_query_results" /\ pc = "title"
  /\ out' = IF args.title # None
              THEN out \o << Line("title", args.title, <<>>, 0, 0),
                             Line("underline", Repeat("=", 30), <<>>, 0, 0) >>
              ELSE out
  /\ pc' = "connect"
  /\ UNCHANGED <<cfgVars, scriptVars, db, conns, held, cols, op, args, conn, pending, outcome, trace, i, info, df>>

\* print_query_results, lines 104-106: the title and its underline
PrintTitle ==
  /\ op = "print_query_results" /\ pc = "title"
  /\ out' = IF Truthy(args.title)
              THEN out \o << Line("title", args.title, <<>>, 0, 0),
                             Line("underline", Repeat("=", Len(args.title)), <<>>, 0, 0) >>
              ELSE out
  /\ pc' = "connect"
  /\ UNCHANGED <<cfgVars, scriptVars, db, conns, held, cols, op, args, conn, pending, outcome, trace, i, info, df>>

\* `with get_connection() as conn:` is entered
WithEnter ==
  /\ op \in WithOps /\ pc = "connect"
  /\ \E ok \in BOOLEAN :
       /\ get_connection(ok)
       /\ IF ok
            THEN /\ pc' = IF op = "table_info" THEN "count" ELSE "execute"
                 /\ i' = IF op = "table_info" THEN 1 ELSE i
                 /\ outcome' = outcome
            ELSE /\ pc' = "done"
                 /\ i' = i
                 /\ outcome' = Raised("ConnectionError")
  /\ UNCHANGED <<cfgVars, scriptVars, db, held, cols, op, args, pending, out, info, df>>

\* Execute, materialising the first row only (fetchmany(1) / df().head(1))
ExecuteFirstRow ==
  /\ op \in WithOps \ {"table_info"} /\ pc = "execute"
  /\ LET np == IF ParamsTruthy(args.params) THEN Len(args.params.values) ELSE 0
         r  == EngineExecute(db[conns[conn].database], args.query, np)
     IN /\ trace' = Append(trace, Ev("execute", conns[conn].database, args.query, np, r.ok))
        /\ df' = DfHead(r.rows, 1)
        /\ pending' = r.err
        /\ db' = [db EXCEPT ![conns[conn].database] = EngineEffect(@, args.query, np)]
        /\ cols' = IF r.ok /\ op \in DfOps THEN Projection(args.query) ELSE <<>>
  /\ pc' = "exit"
  /\ UNCHANGED <<cfgVars, scriptVars, conns, held, op, args, conn, outcome, out, i, info>>

\* the body of execute_query / query_to_dataframe: params are handed to the
\* engine only when truthy
Execute ==
  /\ op \in WithOps \ {"table_info"} /\ pc = "execute"
  /\ LET np == IF ParamsTruthy(args.params) THEN Len(args.params.values) ELSE 0
         r  == EngineExecute(db[conns[conn].database], args.query, np)
     IN /\ trace' = Append(trace, Ev("execute", conns[conn].database, args.query, np, r.ok))
        /\ df' = r.rows
        /\ pending' = r.err
        /\ db' = [db EXCEPT ![conns[conn].database] = EngineEffect(@, args.query, np)]
        /\ cols' = IF r.ok /\ op \in DfOps THEN Projection(args.query) ELSE <<>>
  /\ pc' = "exit"
  /\ UNCHANGED <<cfgVars, scriptVars, conns, held, op, args, conn, outcome, out, i, info>>

\* WithExit, with an engine error answered by an empty result
WithExitEmptyOnError ==
  /\ op \in WithOps /\ pc = "exit"
  /\ conns' = [conns EXCEPT ![conn].open = FALSE]
  /\ trace' = Append(trace, Ev("close", conns[conn].database, NoQuery, 0, TRUE))
  /\ IF op = "print_query_results"
       THEN /\ outcome' = outcome
            /\ pc' = "print"
       ELSE /\ outcome' = Returned(IF op = "table_info" THEN info ELSE df)
            /\ pc' = "done"
  /\ UNCHANGED <<cfgVars, scriptVars, db, held, cols, op, args, conn, pending, out, i, info, df>>

\* WithExit, with the connection never released (get_connection used
\* without the with statement)
WithExitNoClose ==
  /\ op \in WithOps /\ pc = "exit"
  /\ conns' = conns
  /\ trace' = trace
  /\ IF pending # "none"
       THEN /\ outcome' = Raised(pending)
            /\ pc' = "done"
       ELSE IF op = "print_query_results"
       THEN /\ outcome' = outcome
            /\ pc' = "print"
       ELSE /\ outcome' = Returned(IF op = "table_info" THEN info ELSE df)
            /\ pc' = "done"
  /\ UNCHANGED <<cfgVars, scriptVars, db, held, cols, op, args, conn, pending, out, i, info, df>>

\* WithExit, with the printer going on after a failed query
WithExitContinue ==
  /\ op \in WithOps /\ pc = "exit"
  /\ conns' = [conns EXCEPT ![conn].open = FALSE]
  /\ trace' = Append(trace, Ev("close", conns[conn].database, NoQuery, 0, TRUE))
  /\ IF op = "print_query_results"
       THEN /\ outcome' = outcome
            /\ pc' = "print"
       ELSE IF pending # "none"
       THEN /\ outcome' = Raised(pending)
            /\ pc' = "done"
       ELSE /\ outcome' = Returned(IF op = "table_info" THEN info ELSE df)
            /\ pc' = "done"
  /\ UNCHANGED <<cfgVars, scriptVars, db, held, cols, op, args, conn, pending, out, i, info, df>>

\* WithExit, with the release skipped when an exception is travelling
WithExitLeak ==
  /\ op \in WithOps /\ pc = "exit"
  /\ conns' = IF pending # "none" THEN conns ELSE [conns EXCEPT ![conn].open = FALSE]
  /\ trace' = IF pending # "none" THEN trace
              ELSE Append(trace, Ev("close", conns[conn].database, NoQuery, 0, TRUE))
  /\ IF pending # "none"
       THEN /\ outcome' = Raised(pending)
            /\ pc' = "done"
       ELSE IF op = "print_query_results"
       THEN /\ outcome' = outcome
            /\ pc' = "print"
       ELSE /\ outcome' = Returned(IF op = "table_info" THEN info ELSE df)
            /\ pc' = "done"
  /\ UNCHANGED <<cfgVars, scriptVars, db, held, cols, op, args, conn, pending, out, i, info, df>>

\* the with block is left, normally or by an exception: the connection's
\* __exit__ closes it, then the value is returned or the exception goes on
WithExit ==
  /\ op \in WithOps /\ pc = "exit"
  /\ conns' = [conns EXCEPT ![conn].open = FALSE]
  /\ trace' = Append(trace, Ev("close", conns[conn].database, NoQuery, 0, TRUE))
  /\ IF pending # "none"
       THEN /\ outcome' = Raised(pending)
            /\ pc' = "done"
       ELSE IF op = "print_query_results"
       THEN /\ outcome' = outcome
            /\ pc' = "print"
       ELSE /\ outcome' = Returned(IF op = "table_info" THEN info ELSE df)
            /\ pc' = "done"
  /\ UNCHANGED <<cfgVars, scriptVars, db, held, cols, op, args, conn, pending, out, i, info, df>>

\* PrintResults, truncating the DataFrame in place (df = df.head(limit))
PrintResultsInPlace ==
  /\ op = "print_query_results" /\ pc = "print"
  /\ out' = (IF Len(df) > args.limit
               THEN out \o << Line("showing", "", <<>>, args.limit, Len(df)),
                              Line("rows", "", DfHead(df, args.limit), 0, 0),
                              Line("more", "", <<>>, Len(df) - args.limit, 0) >>
               ELSE Append(out, Line("rows", "", df, 0, 0)))
            \o << Line("blank", "", <<>>, 0, 0) >>
  /\ df' = IF Len(df) > args.limit THEN DfHead(df, args.limit) ELSE df
  /\ outcome' = Returned(<<>>)
  /\ pc' = "done"
  /\ UNCHANGED <<cfgVars, scriptVars, db, conns, held, cols, op, args, conn, pending, trace, i, info>>

\* PrintResults, truncating from len(df) >= limit on
PrintResultsOffByOne ==
  /\ op = "print_query_results" /\ pc = "print"
  /\ out' = (IF Len(df) >= args.limit
               THEN out \o << Line("showing", "", <<>>, args.limit, Len(df)),
                              Line("rows", "", DfHead(df, args.limit), 0, 0),
                              Line("more", "", <<>>, Len(df) - args.limit, 0) >>
               ELSE Append(out, Line("rows", "", df, 0, 0)))
            \o << Line("blank", "", <<>>, 0, 0) >>
  /\ outcome' = Returned(<<>>)
  /\ pc' = "done"
  /\ UNCHANGED <<cfgVars, scriptVars, db, conns, held, cols, op, args, conn, pending, trace, i, info, df>>

\* print_query_results, lines 109-115
PrintResults ==
  /\ op = "print_query_results" /\ pc = "print"
  /\ out' = (IF Len(df) > args.limit
               THEN out \o << Line("showing", "", <<>>, args.limit, Len(df)),
                              Line("rows", "", DfHead(df, args.limit), 0, 0),
                              Line("more", "", <<>>, Len(df) - args.limit, 0) >>
               ELSE Append(out, Line("rows", "", df, 0, 0)))
            \o << Line("blank", "", <<>>, 0, 0) >>
  /\ outcome' = Returned(<<>>)
  /\ pc' = "done"
  /\ UNCHANGED <<cfgVars, scriptVars, db, conns, held, cols, op, args, conn, pending, trace, i, info, df>>

\* TableInfoCount, leaving the loop on a failed count and returning what it
\* has collected
TableInfoCountBreak ==
  /\ op = "table_info" /\ pc = "count"
  /\ LET q == CountQuery(Tables[i])
         r == EngineExecute(db[conns[conn].database], q, 0)
     IN /\ trace' = Append(trace, Ev("execute", conns[conn].database, q, 0, r.ok))
        /\ df' = IF r.ok THEN r.rows ELSE df
        /\ pc' = IF r.ok THEN "describe" ELSE "exit"
        /\ pending' = pending
  /\ UNCHANGED <<cfgVars, scriptVars, db, conns, held, cols, op, args, conn, outcome, out, i, info>>

\* TableInfoCount, recovering from a failed count with a count of 0
TableInfoCountRecover ==
  /\ op = "table_info" /\ pc = "count"
  /\ LET q == CountQuery(Tables[i])
         r == EngineExecute(db[conns[conn].database], q, 0)
     IN /\ trace' = Append(trace, Ev("execute", conns[conn].database, q, 0, r.ok))
        /\ df' = r.rows
        /\ pc' = "describe"
        /\ pending' = pending
  /\ UNCHANGED <<cfgVars, scriptVars, db, conns, held, cols, op, args, conn, outcome, out, i, info>>

\* table_info, line 85-86: the count query of Tables[i]
TableInfoCount ==
  /\ op = "table_info" /\ pc = "count"
  /\ LET q == CountQuery(Tables[i])
         r == EngineExecute(db[conns[conn].database], q, 0)
     IN /\ trace' = Append(trace, Ev("execute", conns[conn].database, q, 0, r.ok))
        /\ IF r.ok
             THEN /\ df' = r.rows
                  /\ pc' = "describe"
                  /\ pending' = pending
             ELSE /\ df' = df
                  /\ pc' = "exit"
                  /\ pending' = r.err
  /\ UNCHANGED <<cfgVars, scriptVars, db, conns, held, cols, op, args, conn, outcome, out, i, info>>

\* TableInfoDescribe, with the table rebuilt without its duplicate rows
\* (CREATE OR REPLACE TABLE t AS SELECT DISTINCT * FROM t) before the describe
TableInfoDescribeDistinct ==
  /\ op = "table_info" /\ pc = "describe"
  /\ LET q == DescribeQuery(Tables[i])
         r == EngineExecute(db[conns[conn].database], q, 0)
         count == IF Len(df) > 0 THEN df[1][1] ELSE 0
     IN /\ trace' = Append(trace, Ev("execute", conns[conn].database, q, 0, r.ok))
        /\ db' = [db EXCEPT ![conns[conn].database] =
                     [@ EXCEPT !.loads = Min(@, 1), !.extra = 0]]
        /\ IF r.ok
             THEN /\ info' = Append(info, [table |-> Tables[i], count |-> count,
                                           columns |-> [k \in 1..Len(r.rows) |-> r.rows[k][1]]])
                  /\ i' = i + 1
                  /\ pc' = IF i < Len(Tables) THEN "count" ELSE "exit"
                  /\ pending' = pending
             ELSE /\ info' = info
                  /\ i' = i
                  /\ pc' = "exit"
                  /\ pending' = r.err
  /\ UNCHANGED <<cfgVars, scriptVars, conns, held, cols, op, args, conn, outcome, out, df>>

\* table_info, lines 87-91: the describe query of Tables[i] and info[table]
TableInfoDescribe ==
  /\ op = "table_info" /\ pc = "describe"
  /\ LET q == DescribeQuery(Tables[i])
         r == EngineExecute(db[conns[conn].database], q, 0)
         count == IF Len(df) > 0 THEN df[1][1] ELSE 0
     IN /\ trace' = Append(trace, Ev("execute", conns[conn].database, q, 0, r.ok))
        /\ IF r.ok
             THEN /\ info' = Append(info, [table |-> Tables[i], count |-> count,
                                           columns |-> [k \in 1..Len(r.rows) |-> r.rows[k][1]]])
                  /\ i' = i + 1
                  /\ pc' = IF i < Len(Tables) THEN "count" ELSE "exit"
                  /\ pending' = pending
             ELSE /\ info' = info
                  /\ i' = i
                  /\ pc' = "exit"
                  /\ pending' = r.err
  /\ UNCHANGED <<cfgVars, scriptVars, db, conns, held, cols, op, args, conn, outcome, out, df>>

\* ------------------------------------------------------ setup_database.py
\* lines 18-19: db_path falls back to the configured path
\* SetupPath, with the argument ignored
SetupPathConfigured == DATABASE_PATH

SetupPath == IF args.db_path = None THEN DATABASE_PATH ELSE args.db_path

Text(t) == Line("text", t, <<>>, 0, 0)

CallSetupDatabase ==
  /\ pc = "idle"
  /\ \E p \in {None, OtherPath} :
    /\ db[IF p = None THEN DATABASE_PATH ELSE p].loads < MaxLoads
    /\ Begin("setup_database", Args(NoQuery, NoParams, None, 10, p), "connect")

\* SetupConnect, with an explicit db_path stored as the configured path
\* (global DATABASE_PATH; DATABASE_PATH = db_path)
SetupConnectRebind ==
  /\ op = "setup_database" /\ pc = "connect"
  /\ DATABASE_PATH' = SetupPath
  /\ DATABASE_CONFIG' = DATABASE_CONFIG
  /\ \E ok \in BOOLEAN :
       /\ trace' = Append(trace, Ev("connect", SetupPath, NoQuery, 0, ok))
       /\ IF ok
            THEN /\ conns' = Append(conns, Connect(SetupPath,
                                                   DictGet(DATABASE_CONFIG, "read_only", FALSE),
                                                   DictGet(DATABASE_CONFIG, "config", EmptyDict)))
                 /\ conn' = Len(conns) + 1
                 /\ pc' = "read_schema"
                 /\ outcome' = outcome
            ELSE /\ conns' = conns
                 /\ conn' = 0
                 /\ pc' = "done"
                 /\ outcome' = Raised("ConnectionError")
  /\ UNCHANGED <<scriptVars, db, held, cols, op, args, pending, out, i, info, df>>

\* lines 27-31: duckdb.connect, before the try block
SetupConnect ==
  /\ op = "setup_database" /\ pc = "connect"
  /\ \E ok \in BOOLEAN :
       /\ trace' = Append(trace, Ev("connect", SetupPath, NoQuery, 0, ok))
       /\ IF ok
            THEN /\ conns' = Append(conns, Connect(SetupPath,
                                                   DictGet(DATABASE_CONFIG, "read_only", FALSE),
                                                   DictGet(DATABASE_CONFIG, "config", EmptyDict)))
                 /\ conn' = Len(conns) + 1
                 /\ pc' = "read_schema"
                 /\ outcome' = outcome
            ELSE /\ conns' = conns
                 /\ conn' = 0
                 /\ pc' = "done"
                 /\ outcome' = Raised("ConnectionError")
  /\ UNCHANGED <<cfgVars, scriptVars, db, held, cols, op, args, pending, out, i, info, df>>

\* SetupReadSchema, going on to the execution whatever the read did
SetupReadSchemaGoOn ==
  /\ op = "setup_database" /\ pc = "read_schema"
  /\ out' = out \o << Text("Setting up HR database at: " \o SetupPath),
                       Text("Creating tables...") >>
  /\ \E ok \in BOOLEAN :
       /\ trace' = Append(trace, Ev("read_file", "schema.sql", NoQuery, 0, ok))
       /\ pending' = pending
       /\ pc' = "exec_schema"
  /\ UNCHANGED <<cfgVars, scriptVars, db, conns, held, cols, op, args, conn, outcome, i, info, df>>

\* lines 34-39: the first two messages, then the schema file is read
SetupReadSchema ==
  /\ op = "setup_database" /\ pc = "read_schema"
  /\ out' = out \o << Text("Setting up HR database at: " \o SetupPath),
                       Text("Creating tables...") >>
  /\ \E ok \in BOOLEAN :
       /\ trace' = Append(trace, Ev("read_file", "schema.sql", NoQuery, 0, ok))
       /\ pending' = IF ok THEN pending ELSE "FileError"
       /\ pc' = IF ok THEN "exec_schema" ELSE "except"
  /\ UNCHANGED <<cfgVars, scriptVars, db, conns, held, cols, op, args, conn, outcome, i, info, df>>

\* SetupExecSchema, with the success message printed before the execution
SetupExecSchemaEarlyMessage ==
  /\ op = "setup_database" /\ pc = "exec_schema"
  /\ \E ok \in BOOLEAN, complete \in BOOLEAN :
       /\ trace' = Append(trace, Ev("execute", conns[conn].database, SchemaSql, 0, ok))
       /\ out' = Append(out, Text("Tables created successfully"))
       /\ IF ok
            THEN /\ db' = [db EXCEPT ![conns[conn].database] = SchemaEffect(@, complete)]
                 /\ pending' = pending
                 /\ pc' = "read_data"
            ELSE /\ complete
                 /\ db' = db
                 /\ pending' = "QueryError"
                 /\ pc' = "except"
  /\ UNCHANGED <<cfgVars, scriptVars, conns, held, cols, op, args, conn, outcome, i, info, df>>

\* lines 40-41: the schema text is executed; what it creates is the file's
\* business (complete: all seven tables exist afterwards)
SetupExecSchema ==
  /\ op = "setup_database" /\ pc = "exec_schema"
  /\ \E ok \in BOOLEAN, complete \in BOOLEAN :
       /\ trace' = Append(trace, Ev("execute", conns[conn].database, SchemaSql, 0, ok))
       /\ IF ok
            THEN /\ db' = [db EXCEPT ![conns[conn].database] = SchemaEffect(@, complete)]
                 /\ out' = Append(out, Text("Tables created successfully"))
                 /\ pending' = pending
                 /\ pc' = "read_data"
            ELSE /\ complete
                 /\ db' = db
                 /\ out' = out
                 /\ pending' = "QueryError"
                 /\ pc' = "except"
  /\ UNCHANGED <<cfgVars, scriptVars, conns, held, cols, op, args, conn, outcome, i, info, df>>

\* lines 44-46: the data file is read
SetupReadData ==
  /\ op = "setup_database" /\ pc = "read_data"
  /\ out' = Append(out, Text("Loading data..."))
  /\ \E ok \in BOOLEAN :
       /\ trace' = Append(trace, Ev("read_file", "data.sql", NoQuery, 0, ok))
       /\ pending' = IF ok THEN pending ELSE "FileError"
       /\ pc' = IF ok THEN "exec_data" ELSE "except"
  /\ UNCHANGED <<cfgVars, scriptVars, db, conns, held, cols, op, args, conn, outcome, i, info, df>>

\* SetupExecData, with the success marker printed before the execution
SetupExecDataEarlyMessage ==
  /\ op = "setup_database" /\ pc = "exec_data"
  /\ \E ok \in BOOLEAN :
       /\ trace' = Append(trace, Ev("execute", conns[conn].database, DataSql, 0, ok))
       /\ IF ok
            THEN /\ db' = [db EXCEPT ![conns[conn].database] = DataEffect(@)]
                 /\ out' = out \o << Text("Data loaded successfully"),
                                      Text("Database setup complete! Record counts:") >>
                 /\ pending' = pending
                 /\ pc' = "verify"
                 /\ i' = 1
            ELSE /\ db' = db
                 /\ out' = Append(out, Text("Data loaded successfully"))
                 /\ pending' = "QueryError"
                 /\ pc' = "except"
                 /\ i' = i
  /\ UNCHANGED <<cfgVars, scriptVars, conns, held, cols, op, args, conn, outcome, info, df>>

\* SetupExecData, with the data text executed only on a store that holds
\* no seed rows yet
SetupExecDataIfEmpty ==
  /\ op = "setup_database" /\ pc = "exec_data"
  /\ \E ok \in BOOLEAN :
       /\ ok \/ db[conns[conn].database].loads = 0
       /\ trace' = IF db[conns[conn].database].loads = 0
                     THEN Append(trace, Ev("execute", conns[conn].database, DataSql, 0, ok))
                     ELSE trace
       /\ IF ok
            THEN /\ db' = [db EXCEPT ![conns[conn].database] =
                              IF @.loads = 0 THEN DataEffect(@) ELSE @]
                 /\ out' = out \o << Text("Data loaded successfully"),
                                      Text("Database setup complete! Record counts:") >>
                 /\ pending' = pending
                 /\ pc' = "verify"
                 /\ i' = 1
            ELSE /\ db' = db
                 /\ out' = out
                 /\ pending' = "QueryError"
                 /\ pc' = "except"
                 /\ i' = i
  /\ UNCHANGED <<cfgVars, scriptVars, conns, held, cols, op, args, conn, outcome, info, df>>

\* lines 47-52: the data text is executed, then the report header is printed
SetupExecData ==
  /\ op = "setup_database" /\ pc = "exec_data"
  /\ \E ok \in BOOLEAN :
       /\ trace' = Append(trace, Ev("execute", conns[conn].database, DataSql, 0, ok))
       /\ IF ok
            THEN /\ db' = [db EXCEPT ![conns[conn].database] = DataEffect(@)]
                 /\ out' = out \o << Text("Data loaded successfully"),
                                      Text("Database setup complete! Record counts:") >>
                 /\ pending' = pending
                 /\ pc' = "verify"
                 /\ i' = 1
            ELSE /\ db' = db
                 /\ out' = out
                 /\ pending' = "QueryError"
                 /\ pc' = "except"
                 /\ i' = i
  /\ UNCHANGED <<cfgVars, scriptVars, conns, held, cols, op, args, conn, outcome, info, df>>

\* SetupVerify, with the loop ending one table early
SetupVerifyShort ==
  /\ op = "setup_database" /\ pc = "verify"
  /\ LET q == CountQuery(Tables[i])
         r == EngineExecute(db[conns[conn].database], q, 0)
         count == IF Len(r.rows) > 0 THEN r.rows[1][1] ELSE 0
     IN /\ trace' = Append(trace, Ev("execute", conns[conn].database, q, 0, r.ok))
        /\ IF r.ok
             THEN /\ out' = Append(out, Line("count", Tables[i], <<>>, count, 0))
                  /\ i' = i + 1
                  /\ pc' = IF i < Len(Tables) - 1 THEN "verify" ELSE "finally"
                  /\ pending' = pending
             ELSE /\ out' = out
                  /\ i' = i
                  /\ pc' = "except"
                  /\ pending' = r.err
  /\ UNCHANGED <<cfgVars, scriptVars, db, conns, held, cols, op, args, conn, outcome, info, df>>

\* SetupVerify, with the test of line 55 inverted
\* (count = result[0] if result is None else 0)
SetupVerifyZero ==
  /\ op = "setup_database" /\ pc = "verify"
  /\ LET q == CountQuery(Tables[i])
         r == EngineExecute(db[conns[conn].database], q, 0)
         count == 0
     IN /\ trace' = Append(trace, Ev("execute", conns[conn].database, q, 0, r.ok))
        /\ IF r.ok
             THEN /\ out' = Append(out, Line("count", Tables[i], <<>>, count, 0))
                  /\ i' = i + 1
                  /\ pc' = IF i < Len(Tables) THEN "verify" ELSE "finally"
                  /\ pending' = pending
             ELSE /\ out' = out
                  /\ i' = i
                  /\ pc' = "except"
                  /\ pending' = r.err
  /\ UNCHANGED <<cfgVars, scriptVars, db, conns, held, cols, op, args, conn, outcome, info, df>>

\* lines 53-56: the row count of Tables[i] is queried and printed
SetupVerify ==
  /\ op = "setup_database" /\ pc = "verify"
  /\ LET q == CountQuery(Tables[i])
         r == EngineExecute(db[conns[conn].database], q, 0)
         count == IF Len(r.rows) > 0 THEN r.rows[1][1] ELSE 0
     IN /\ trace' = Append(trace, Ev("execute", conns[conn].database, q, 0, r.ok))
        /\ IF r.ok
             THEN /\ out' = Append(out, Line("count", Tables[i], <<>>, count, 0))
                  /\ i' = i + 1
                  /\ pc' = IF i < Len(Tables) THEN "verify" ELSE "finally"
                  /\ pending' = pending
             ELSE /\ out' = out
                  /\ i' = i
                  /\ pc' = "except"
                  /\ pending' = r.err
  /\ UNCHANGED <<cfgVars, scriptVars, db, conns, held, cols, op, args, conn, outcome, info, df>>

\* SetupExcept, with the tables of a store that holds no rows dropped again
\* before the exception is re-raised
SetupExceptRollback ==
  /\ op = "setup_database" /\ pc = "except"
  /\ out' = Append(out, Line("error", "Error setting up database: " \o pending, <<>>, 0, 0))
  /\ db' = [db EXCEPT ![conns[conn].database].schema =
               @ /\ db[conns[conn].database].loads > 0]
  /\ pc' = "finally"
  /\ UNCHANGED <<cfgVars, scriptVars, conns, held, cols, op, args, conn, pending, outcome, trace, i, info, df>>

\* SetupExcept, as a handler around the schema step alone that lets the load
\* go on
SetupExceptResume ==
  /\ op = "setup_database" /\ pc = "except"
  /\ out' = Append(out, Line("error", "Error setting up database: " \o pending, <<>>, 0, 0))
  /\ LET created == \E k \in 1..Len(trace) : trace[k].q = SchemaSql /\ trace[k].ok
     IN /\ pending' = IF created THEN pending ELSE "none"
        /\ pc' = IF created THEN "finally" ELSE "read_data"
  /\ UNCHANGED <<cfgVars, scriptVars, db, conns, held, cols, op, args, conn, outcome, trace, i, info, df>>

\* SetupExcept, without the `raise`: the exception is swallowed
SetupExceptSwallow ==
  /\ op = "setup_database" /\ pc = "except"
  /\ out' = Append(out, Line("error", "Error setting up database: " \o pending, <<>>, 0, 0))
  /\ pending' = "none"
  /\ pc' = "finally"
  /\ UNCHANGED <<cfgVars, scriptVars, db, conns, held, cols, op, args, conn, outcome, trace, i, info, df>>

\* lines 58-60: the diagnostic is printed and the exception re-raised
SetupExcept ==
  /\ op = "setup_database" /\ pc = "except"
  /\ out' = Append(out, Line("error", "Error setting up database: " \o pending, <<>>, 0, 0))
  /\ pc' = "finally"
  /\ UNCHANGED <<cfgVars, scriptVars, db, conns, held, cols, op, args, conn, pending, outcome, trace, i, info, df>>

\* SetupFinally, with the close placed after the try block instead of in
\* its finally clause: it is skipped when an exception is travelling
SetupFinallySkipClose ==
  /\ op = "setup_database" /\ pc = "finally"
  /\ conns' = IF pending # "none" THEN conns ELSE [conns EXCEPT ![conn].open = FALSE]
  /\ trace' = IF pending # "none" THEN trace
              ELSE Append(trace, Ev("close", conns[conn].database, NoQuery, 0, TRUE))
  /\ outcome' = IF pending # "none" THEN Raised(pending) ELSE Returned(<<>>)
  /\ pc' = "done"
  /\ UNCHANGED <<cfgVars, scriptVars, db, held, cols, op, args, conn, pending, out, i, info, df>>

\* lines 61-62: conn.close(), then the call returns or the exception goes on
SetupFinally ==
  /\ op = "setup_database" /\ pc = "finally"
  /\ conns' = [conns EXCEPT ![conn].open = FALSE]
  /\ trace' = Append(trace, Ev("close", conns[conn].database, NoQuery, 0, TRUE))
  /\ outcome' = IF pending # "none" THEN Raised(pending) ELSE Returned(<<>>)
  /\ pc' = "done"
  /\ UNCHANGED <<cfgVars, scriptVars, db, held, cols, op, args, conn, pending, out, i, info, df>>

\* ------------------------------------------------------------ entry points
\* a statement of a script: a print, or a call of an exposed operation
PrintItem(t)   == [kind |-> "print", op |-> "print", args |-> NoArgs, text |-> t]
CallItem(o, a) == [kind |-> "call", op |-> o, args |-> a, text |-> ""]

\* print_query_results(<literal SQL>, <title>[, limit=...])
PrintQueryItem(q, l) ==
  CallItem("print_query_results", Args(q, NoParams, "Example", l, None))

\* 01_intro_select.py, __main__ and run_all_examples, flattened in execution order
IntroSelectItems ==
  << PrintItem("DuckDB SQL Practice: Introduction and SELECT Statements"),
     PrintItem(Repeat("=", 60)),
     PrintItem("=== DuckDB Connection and Database Exploration ==="),
     PrintItem("Database Information:"),
     CallItem("table_info", NoArgs),
     PrintItem("  {table_name}: {count} records"),
     PrintQueryItem(RowsQuery(1, 0), 10),
     PrintItem("=== Basic SELECT Operations ==="),
     PrintQueryItem(ExampleQuery(2), 10),
     PrintQueryItem(ExampleQuery(3), 10),
     PrintQueryItem(ExampleQuery(4), 10),
     PrintQueryItem(ExampleQuery(5), 10),
     PrintItem("=== WHERE Clause Examples ==="),
     PrintQueryItem(ExampleQuery(6), 15),
     PrintQueryItem(ExampleQuery(7), 10),
     PrintQueryItem(ExampleQuery(8), 10),
     PrintQueryItem(ExampleQuery(9), 10),
     PrintQueryItem(ExampleQuery(10), 10),
     PrintQueryItem(ExampleQuery(11), 10),
     PrintQueryItem(ExampleQuery(12), 10),
     PrintQueryItem(ExampleQuery(13), 10),
     PrintItem("=== ORDER BY Examples ==="),
     PrintQueryItem(ExampleQuery(14), 10),
     PrintQueryItem(ExampleQuery(15), 10),
     PrintQueryItem(ExampleQuery(16), 10),
     PrintItem("=== LIMIT and OFFSET Examples ==="),
     PrintQueryItem(ExampleQuery(17), 10),
     PrintQueryItem(ExampleQuery(18), 10),
     PrintItem("=== DISTINCT Examples ==="),
     PrintQueryItem(ExampleQuery(19), 10),
     PrintQueryItem(ExampleQuery(20), 10),
     PrintItem("=== CASE WHEN Examples ==="),
     PrintQueryItem(ExampleQuery(21), 10),
     PrintQueryItem(ExampleQuery(22), 10),
     PrintItem(Repeat("=", 60)),
     PrintItem("Practice complete! Try modifying the queries above to explore further.") >>

\* 02_joins.py, __main__ and run_all_examples, flattened in execution order
JoinsItems ==
  << PrintItem("DuckDB SQL Practice: JOIN Operations"),
     PrintItem(Repeat("=", 40)),
     PrintItem("=== INNER JOIN Examples ==="),
     PrintQueryItem(ExampleQuery(1), 10),
     PrintQueryItem(ExampleQuery(2), 10),
     PrintQueryItem(ExampleQuery(3), 10),
     PrintItem("=== LEFT JOIN Examples ==="),
     PrintQueryItem(ExampleQuery(4), 10),
     PrintQueryItem(ExampleQuery(5), 10),
     PrintQueryItem(ExampleQuery(6), 10),
     PrintItem("=== RIGHT JOIN Examples ==="),
     PrintQueryItem(ExampleQuery(7), 10),
     PrintItem("=== FULL OUTER JOIN Examples ==="),
     PrintQueryItem(ExampleQuery(8), 10),
     PrintItem("=== CROSS JOIN Examples ==="),
     PrintQueryItem(ExampleQuery(9), 10),
     PrintItem("=== SELF JOIN Examples ==="),
     PrintQueryItem(ExampleQuery(10), 10),
     PrintQueryItem(ExampleQuery(11), 10),
     PrintQueryItem(ExampleQuery(12), 10),
     PrintItem("=== Complex JOIN Examples ==="),
     PrintQueryItem(ExampleQuery(13), 10),
     PrintQueryItem(ExampleQuery(14), 10),
     PrintQueryItem(ExampleQuery(15), 10),
     PrintItem("=== JOIN Performance Tips ==="),
     PrintItem("Performance Tips for JOINs in DuckDB:"),
     PrintQueryItem(ExampleQuery(16), 10),
     PrintItem(Repeat("=", 40)),
     PrintItem("Practice complete! Try creating your own join combinations.") >>

\* 03_aggregation.py, __main__ and run_all_examples, flattened in execution order
AggregationItems ==
  << PrintItem("DuckDB SQL Practice: Aggregation Functions and GROUP BY"),
     PrintItem(Repeat("=", 55)),
     PrintItem("=== Basic Aggregation Functions ==="),
     PrintQueryItem(CountQuery("employees"), 10),
     PrintQueryItem(ExampleQuery(2), 10),
     PrintQueryItem(ExampleQuery(3), 10),
     PrintQueryItem(ExampleQuery(4), 10),
     PrintItem("=== GROUP BY Examples ==="),
     PrintQueryItem(ExampleQuery(5), 10),
     PrintQueryItem(ExampleQuery(6), 10),
     PrintQueryItem(ExampleQuery(7), 10),
     PrintItem("=== HAVING Clause Examples ==="),
     PrintQueryItem(ExampleQuery(8), 10),
     PrintQueryItem(ExampleQuery(9), 10),
     PrintQueryItem(ExampleQuery(10), 10),
     PrintItem("=== Advanced Aggregation Examples ==="),
     PrintQueryItem(ExampleQuery(11), 10),
     PrintQueryItem(ExampleQuery(12), 10),
     PrintQueryItem(ExampleQuery(13), 10),
     PrintItem("=== Window Function Examples ==="),
     PrintQueryItem(ExampleQuery(14), 10),
     PrintQueryItem(ExampleQuery(15), 10),
     PrintQueryItem(ExampleQuery(16), 10),
     PrintItem("=== Regional Analysis Examples ==="),
     PrintQueryItem(ExampleQuery(17), 10),
     PrintQueryItem(ExampleQuery(18), 10),
     PrintItem("=== Date Analysis Examples ==="),
     PrintQueryItem(ExampleQuery(19), 10),
     PrintQueryItem(ExampleQuery(20), 10),
     PrintItem(Repeat("=", 55)),
     PrintItem("Practice complete! Try creating your own aggregation queries.") >>

\* 04_subqueries_ctes.py, __main__ and run_all_examples, flattened in execution order
SubqueriesCtesItems ==
  << PrintItem("DuckDB SQL Practice: Subqueries and CTEs"),
     PrintItem(Repeat("=", 40)),
     PrintItem("=== Scalar Subquery Examples ==="),
     PrintQueryItem(ExampleQuery(1), 10),
     PrintQueryItem(ExampleQuery(2), 10),
     PrintItem("=== Column Subquery Examples ==="),
     PrintQueryItem(ExampleQuery(3), 10),
     PrintQueryItem(ExampleQuery(4), 10),
     PrintQueryItem(ExampleQuery(5), 10),
     PrintQueryItem(ExampleQuery(6), 10),
     PrintItem("=== Correlated Subquery Examples ==="),
     PrintQueryItem(ExampleQuery(7), 10),
     PrintQueryItem(ExampleQuery(8), 10),
     PrintQueryItem(ExampleQuery(9), 10),
     PrintItem("=== Basic CTE Examples ==="),
     PrintQueryItem(ExampleQuery(10), 10),
     PrintQueryItem(ExampleQuery(11), 10),
     PrintItem("=== Multiple CTE Examples ==="),
     PrintQueryItem(ExampleQuery(12), 10),
     PrintQueryItem(ExampleQuery(13), 10),
     PrintItem("=== Recursive CTE Examples ==="),
     PrintQueryItem(ExampleQuery(14), 10),
     PrintItem("=== CTE Performance Examples ==="),
     PrintQueryItem(ExampleQuery(15), 10),
     PrintItem(Repeat("=", 40)),
     PrintItem("Practice complete! Try creating complex CTEs for your own analysis.") >>

\* db_utils.py, __main__
DbUtilsItems ==
  << PrintItem("Database Connection Test"),
     PrintItem(Repeat("=", 30)),
     CallItem("show_tables", Args(ShowTablesQuery, NoParams, None, 10, None)),
     PrintItem("Available tables:"),
     PrintItem("  - {table[0]}"),
     PrintItem("Table Information:"),
     CallItem("table_info", NoArgs),
     PrintItem("{table_name}: Records, Columns") >>

\* setup_database.py, __main__
\* SetupItems, with the closing line printed before the call
SetupItemsReadyFirst ==
  << PrintItem("HR database is ready for practice!"),
     CallItem("setup_database", NoArgs) >>

SetupItems ==
  << CallItem("setup_database", NoArgs),
     PrintItem("HR database is ready for practice!") >>

TopicScripts == {"01_intro_select", "02_joins", "03_aggregation", "04_subqueries_ctes"}
Scripts == TopicScripts \cup {"db_utils", "setup_database"}

Items(s) ==
  CASE s = "01_intro_select"    -> IntroSelectItems
    [] s = "02_joins"           -> JoinsItems
    [] s = "03_aggregation"     -> AggregationItems
    [] s = "04_subqueries_ctes" -> SubqueriesCtesItems
    [] s = "db_utils"           -> DbUtilsItems
    [] s = "setup_database"     -> SetupItems
    [] OTHER                    -> <<>>

\* where the body of operation o starts
FirstPc(o) == IF o = "print_query_results" THEN "title" ELSE "connect"

\* the queries the current call has handed to the engine, in order
Executed ==
  LET ex == SelectSeq(trace, LAMBDA e : e.ev = "execute")
  IN [k \in 1..Len(ex) |-> ex[k].q]

\* one statement of the script, as it went
Done(item, o, q, raised, executed, lines) ==
  [item |-> item, op |-> o, q |-> q, raised |-> raised, executed |-> executed,
   lines |-> lines]

\* `python <script>.py`: a new process, with no connection yet
StartScript ==
  /\ pc \in {"idle", "shell"} /\ script = "none"
  /\ \E s \in Scripts :
       /\ script' = s
       /\ sstatus' = "running" /\ ip' = 1 /\ slog' = <<>>
  /\ pc' = "script"
  /\ conns' = <<>> /\ held' = {}
  /\ UNCHANGED <<cfgVars, db, cols, op, args, conn, pending, outcome, out, trace, i, info, df>>

\* the script's next statement is a print
ScriptPrint ==
  /\ pc = "script" /\ sstatus = "running"
  /\ ip <= Len(Items(script))
  /\ Items(script)[ip].kind = "print"
  /\ slog' = Append(slog, Done(ip, "print", NoQuery, FALSE, <<>>,
                                << Line("text", Items(script)[ip].text, <<>>, 0, 0) >>))
  /\ ip' = ip + 1
  /\ UNCHANGED <<cfgVars, db, conns, held, frameVars, script, sstatus>>

\* the script's next statement calls an exposed operation
ScriptCall ==
  /\ pc = "script" /\ sstatus = "running"
  /\ ip <= Len(Items(script))
  /\ Items(script)[ip].kind = "call"
  /\ Items(script)[ip].op = "setup_database" => db[DATABASE_PATH].loads < MaxLoads
  /\ Enter(Items(script)[ip].op, Items(script)[ip].args, FirstPc(Items(script)[ip].op))

\* the script's last statement has been executed
ScriptFinish ==
  /\ pc = "script" /\ sstatus = "running"
  /\ ip > Len(Items(script))
  /\ sstatus' = "finished"
  /\ UNCHANGED <<cfgVars, db, conns, held, frameVars, script, ip, slog>>

\* the process ends, normally or with the traceback of the exception; the
\* next thing to run is another script
ScriptExit ==
  /\ pc = "script" /\ sstatus \in {"aborted", "finished"}
  /\ script' = "none" /\ sstatus' = "none" /\ ip' = 0 /\ slog' = <<>>
  /\ pc' = "shell"
  /\ conns' = <<>> /\ held' = {}
  /\ UNCHANGED <<cfgVars, db, cols, op, args, conn, pending, outcome, out, trace, i, info, df>>

\* Return, with a script going on to its next statement after an exception
ReturnKeepGoing ==
  /\ pc = "done"
  /\ op' = "none" /\ args' = NoArgs /\ conn' = 0
  /\ pending' = "none" /\ outcome' = NoOutcome /\ out' = <<>> /\ trace' = <<>>
  /\ i' = 0 /\ info' = <<>> /\ df' = <<>> /\ cols' = <<>>
  /\ IF script = "none"
       THEN /\ pc' = "idle"
            /\ UNCHANGED scriptVars
       ELSE /\ pc' = "script"
            /\ slog' = Append(slog, Done(ip, op, args.query, outcome.kind = "raised",
                                          Executed, out))
            /\ ip' = ip + 1
            /\ UNCHANGED <<script, sstatus>>
  /\ UNCHANGED <<cfgVars, db, conns, held>>

\* the caller has received the value or the exception; the frame is gone.
\* A script has no handler: an exception ends it, a value lets it go on.
Return ==
  /\ pc = "done"
  /\ op' = "none" /\ args' = NoArgs /\ conn' = 0
  /\ pending' = "none" /\ outcome' = NoOutcome /\ out' = <<>> /\ trace' = <<>>
  /\ i' = 0 /\ info' = <<>> /\ df' = <<>> /\ cols' = <<>>
  /\ IF script = "none"
       THEN /\ pc' = "idle"
            /\ UNCHANGED scriptVars
       ELSE /\ pc' = "script"
            /\ slog' = Append(slog, Done(ip, op, args.query, outcome.kind = "raised",
                                          Executed, out))
            /\ sstatus' = IF outcome.kind = "raised" THEN "aborted" ELSE sstatus
            /\ ip' = IF outcome.kind = "raised" THEN ip ELSE ip + 1
            /\ script' = script
  /\ UNCHANGED <<cfgVars, db, conns, held>>

\* ---------------------------------------------------------- specification
Next ==
  \/ Return
  \/ StartScript \/ ScriptPrint \/ ScriptCall \/ ScriptFinish \/ ScriptExit
  \/ CallGetConnection \/ GetConnectionReturn \/ CallerClose
  \/ CallExecuteQuery \/ CallQueryToDataframe \/ CallShowTables \/ CallDescribeTable
  \/ CallTableInfo \/ TableInfoCount \/ TableInfoDescribe
  \/ CallPrintQueryResults \/ PrintTitle \/ PrintResults
  \/ WithEnter \/ Execute \/ WithExit
  \/ CallSetupDatabase \/ SetupConnect \/ SetupReadSchema \/ SetupExecSchema
  \/ SetupReadData \/ SetupExecData \/ SetupVerify \/ SetupExcept \/ SetupFinally

Spec == Init /\ [][Next]_vars

\* ------------------------------------------------------------ observations
Indices(seq) == 1..Len(seq)

\* connect attempts of the current call, and those that opened a connection
ConnectAttempts == {k \in Indices(trace) : trace[k].ev = "connect"}
ConnectsOpened  == {k \in Indices(trace) : trace[k].ev = "connect" /\ trace[k].ok}

\* steps of the current call, other than the connect, that raised
FailedSteps == {k \in Indices(trace) : trace[k].ev # "connect" /\ ~trace[k].ok}

\* the exception class a failed step raises
ErrorOf(e) == IF e.ev = "read_file" THEN "FileError"
              ELSE EngineExecute(db[e.path], e.q, e.np).err

LinesOfKind(kind) == {k \in Indices(out) : out[k].kind = kind}

Finished(o) == op = o /\ pc = "done"

\* ------------------------------------------------------------------ claims

\* C1: execute_query and query_to_dataframe have closed the connection they
\* acquired on every exit path; when the engine raises, with or without
\* params, the exception reaches the caller and no rows are returned.
C1_ReleaseOnEveryExit ==
  (pc = "done" /\ op \in {"execute_query", "query_to_dataframe"}) =>
     /\ conn # 0 => ~conns[conn].open
     /\ \A k \in FailedSteps :
          /\ outcome.kind = "raised"
          /\ outcome.err = ErrorOf(trace[k])
          /\ outcome.value = <<>>
     /\ (conn # 0 /\ FailedSteps = {}) => outcome = Returned(df)

C1_Witness ==
  /\ Finished("query_to_dataframe")
  /\ ParamsTruthy(args.params)
  /\ conn # 0
  /\ outcome.kind = "raised"

\* C2 as stated: every exposed operation opens exactly one connection per
\* call and has closed it when it returns.
C2_Original ==
  (pc = "done" /\ op # "none") =>
     /\ Cardinality(ConnectsOpened) = 1
     /\ conn # 0 /\ ~conns[conn].open

\* C2 amended: every exposed operation makes exactly one connect attempt per
\* call and so opens at most one connection; every operation but
\* get_connection has closed it when control is back with the caller, and
\* get_connection hands it to the caller open.
C2_OneConnectionPerCall ==
  (pc = "done" /\ op # "none") =>
     /\ Cardinality(ConnectAttempts) = 1
     /\ Cardinality(ConnectsOpened) = IF conn = 0 THEN 0 ELSE 1
     /\ conn = 0 <=> outcome = Raised("ConnectionError")
     /\ conn # 0 => (conns[conn].open <=> op = "get_connection")
     /\ \A c \in Indices(conns) : conns[c].open => c \in held
     /\ op = "get_connection" /\ conn # 0 => conn \in held

C2_Witness ==
  /\ Finished("get_connection")
  /\ conn # 0
  /\ conns[conn].open
  /\ \E c \in Indices(conns) : ~conns[c].open

\* C3: when a step of setup_database after the connect fails (a file read,
\* the schema or data execution, a count query), the diagnostic is printed,
\* the same failure reaches the caller, and the connection is closed by then.
C3_SetupFailureHandled ==
  (Finished("setup_database") /\ FailedSteps # {}) =>
     \A k \in FailedSteps :
        LET e == IF trace[k].ev = "read_file" THEN "FileError" ELSE "QueryError"
        IN /\ outcome = Raised(e)
           /\ \E l \in LinesOfKind("error") : out[l].text = "Error setting up database: " \o e
           /\ conn # 0 /\ ~conns[conn].open
           /\ trace[Len(trace)].ev = "close"

C3_Witness ==
  /\ Finished("setup_database")
  /\ \E k \in FailedSteps : trace[k].q.kind = "count"
  /\ outcome.kind = "raised"

\* rows the printer wrote, and the count its truncation message states
PrintedRows == IF LinesOfKind("rows") = {} THEN <<>>
               ELSE out[CHOOSE k \in LinesOfKind("rows") : TRUE].rows

\* C4: printer boundary, for a row limit that is a row count (limit >= 0):
\* a result of exactly limit rows is printed whole with no "more rows"
\* message; a result of limit + 1 rows has exactly limit rows printed,
\* followed by the message counting 1 more row.
C4_PrinterBoundary ==
  (Finished("print_query_results") /\ outcome.kind = "returned" /\ args.limit >= 0) =>
     /\ Len(df) = args.limit =>
          /\ PrintedRows = df
          /\ LinesOfKind("more") = {}
          /\ LinesOfKind("showing") = {}
     /\ Len(df) = args.limit + 1 =>
          /\ PrintedRows = SubSeq(df, 1, args.limit)
          /\ \E k \in LinesOfKind("rows") :
               /\ k < Len(out)
               /\ out[k + 1].kind = "more"
               /\ out[k + 1].n = 1

C4_Witness ==
  /\ Finished("print_query_results")
  /\ outcome.kind = "returned"
  /\ args.limit = 2
  /\ Len(df) = 3

\* C5 as stated: for every integer limit, negative ones included, the
\* printer writes at most limit rows (min(n, limit) when limit >= 0) and a
\* truncation message counts n minus the rows actually printed.
C5_Claim ==
  (Finished("print_query_results") /\ outcome.kind = "returned") =>
     /\ Len(PrintedRows) <= args.limit
     /\ args.limit >= 0 => Len(PrintedRows) = Min(Len(df), args.limit)
     /\ \A k \in LinesOfKind("more") : out[k].n = Len(df) - Len(PrintedRows)

C5_Witness ==
  /\ Finished("print_query_results")
  /\ outcome.kind = "returned"
  /\ args.limit = -1
  /\ Len(df) = 2

\* C6 as stated: when the query of print_query_results fails in the engine,
\* the failure reaches the caller and the call has written nothing.
C6_Original ==
  (Finished("print_query_results") /\ FailedSteps # {}) =>
     /\ outcome.kind = "raised"
     /\ out = <<>>

\* C6 amended: when the query of print_query_results fails in the engine,
\* the failure reaches the caller and no rows, row-count header or
\* truncation message are written; the title and its underline, printed
\* before the query is executed, are the only output, and only when a title
\* was given.
C6_NoResultOutputOnFailure ==
  (Finished("print_query_results") /\ FailedSteps # {}) =>
     /\ \A k \in FailedSteps : outcome = Raised(ErrorOf(trace[k]))
     /\ out = IF Truthy(args.title)
                THEN << Line("title", args.title, <<>>, 0, 0),
                        Line("underline", Repeat("=", Len(args.title)), <<>>, 0, 0) >>
                ELSE <<>>

C6_Witness ==
  /\ Finished("print_query_results")
  /\ args.query = BadColumnQuery
  /\ Truthy(args.title)
  /\ outcome = Raised("QueryError")
  /\ Len(out) = 2

\* the trace of a successful load on storage location p
SetupOrder(p) ==
  << Ev("connect", p, NoQuery, 0, TRUE),
     Ev("read_file", "schema.sql", NoQuery, 0, TRUE),
     Ev("execute", p, SchemaSql, 0, TRUE),
     Ev("read_file", "data.sql", NoQuery, 0, TRUE),
     Ev("execute", p, DataSql, 0, TRUE) >>
  \o [k \in 1..Len(Tables) |-> Ev("execute", p, CountQuery(Tables[k]), 0, TRUE)]
  \o << Ev("close", p, NoQuery, 0, TRUE) >>

Succeeded(q) == \E k \in Indices(trace) : trace[k].ev = "execute" /\ trace[k].q = q /\ trace[k].ok

\* C7: a successful setup_database is, on one connection: connect, read
\* schema file, execute schema, read data file, execute data, one count
\* query per table in list order, close; and no line of the row-count
\* report is printed before both executions have succeeded.
C7_SetupOrder ==
  /\ (Finished("setup_database") /\ outcome.kind = "returned") =>
        /\ trace = SetupOrder(SetupPath)
        /\ conns[conn].database = SetupPath
        /\ [k \in 1..Len(Tables) |-> out[Len(out) - Len(Tables) + k].text] = Tables
  /\ (op = "setup_database"
        /\ (LinesOfKind("count") # {}
              \/ \E k \in Indices(out) : out[k].text = "Database setup complete! Record counts:")) =>
        Succeeded(SchemaSql) /\ Succeeded(DataSql)

C7_Witness ==
  /\ Finished("setup_database")
  /\ outcome.kind = "returned"
  /\ args.db_path = OtherPath
  /\ Cardinality(LinesOfKind("count")) = Len(Tables)

\* the schema file could not be read in the current call
SchemaReadFailed ==
  \E k \in Indices(trace) : trace[k] = Ev("read_file", "schema.sql", NoQuery, 0, FALSE)

\* C8 as stated: when the schema file cannot be read, the call has opened
\* no connection at the moment the file error is raised.
C8_Original ==
  (op = "setup_database" /\ pc = "except" /\ SchemaReadFailed) =>
     /\ ConnectsOpened = {}
     /\ conn = 0

\* C8 amended: when the schema file cannot be read, the file error is
\* raised after the call's one connection has been opened and before any
\* SQL text has been handed to the engine; that connection is closed when
\* the error reaches the caller.
C8_FileErrorBeforeAnySql ==
  (op = "setup_database" /\ SchemaReadFailed) =>
     /\ trace[1] = Ev("connect", SetupPath, NoQuery, 0, TRUE)
     /\ \A k \in Indices(trace) : trace[k].ev # "execute"
     /\ pending = "FileError"
     /\ pc = "done" => outcome = Raised("FileError") /\ ~conns[conn].open

C8_Witness ==
  /\ op = "setup_database" /\ pc = "except"
  /\ SchemaReadFailed
  /\ conn # 0 /\ conns[conn].open

\* C9 as stated: every failure of setup_database, a failed connect
\* included, reaches the caller only after a diagnostic has been printed.
C9_Claim ==
  (Finished("setup_database") /\ outcome.kind = "raised") =>
     LinesOfKind("error") # {}

C9_Witness ==
  /\ Finished("setup_database")
  /\ outcome = Raised("ConnectionError")
  /\ out = <<>>

Printed(t) == \E k \in Indices(out) : out[k].kind = "text" /\ out[k].text = t

\* the phase in which the current call failed, from what it did
FailedPhase ==
  LET k == CHOOSE j \in FailedSteps : TRUE
  IN IF trace[k].path = "schema.sql" \/ trace[k].q = SchemaSql THEN "schema"
     ELSE IF trace[k].path = "data.sql" \/ trace[k].q = DataSql THEN "data"
     ELSE "verify"

\* the phase a reader of the call's output takes the failure to be in
ReportedPhase ==
  IF ~Printed("Tables created successfully") THEN "schema"
  ELSE IF ~Printed("Data loaded successfully") THEN "data"
  ELSE "verify"

\* C10: when setup_database fails after connecting, what it has printed
\* when it aborts tells the failed phase: the report of a schema-phase
\* failure differs from the report of a data-load failure.
C10_PhaseReported ==
  (Finished("setup_database") /\ FailedSteps # {}) =>
     /\ LinesOfKind("error") # {}
     /\ ReportedPhase = FailedPhase
     /\ FailedPhase = "schema" => Printed("Creating tables...") /\ ~Printed("Loading data...")
     /\ FailedPhase = "data" => Printed("Loading data...")

C10_Witness ==
  /\ Finished("setup_database")
  /\ FailedSteps # {}
  /\ FailedPhase = "data"
  /\ trace[Len(trace) - 1].ev = "execute"

\* C11: a topic script executes its statements strictly in source order,
\* each at most once, every print_query_results call handing its own query
\* to the engine at most once; when a call fails the script is aborted:
\* nothing is executed or printed after the failed call.
C11_ScriptOrder ==
  script \in TopicScripts =>
     /\ \A j \in Indices(slog) :
          /\ slog[j].item = j
          /\ slog[j].op = Items(script)[j].op
          /\ slog[j].op = "print_query_results" =>
               /\ slog[j].q = Items(script)[j].args.query
               /\ slog[j].executed \in {<<>>, << slog[j].q >>}
          /\ slog[j].raised => j = Len(slog) /\ sstatus = "aborted"
     /\ sstatus = "aborted" =>
          /\ slog # <<>> /\ slog[Len(slog)].raised
          /\ pc = "script" /\ ip = Len(slog)
     /\ sstatus = "running" => ip = Len(slog) + 1
     /\ pc # "script" =>
          /\ sstatus = "running"
          /\ op = Items(script)[ip].op /\ args = Items(script)[ip].args
          /\ op = "print_query_results" => Executed \in {<<>>, << args.query >>}

C11_Witness ==
  /\ script \in TopicScripts
  /\ sstatus = "aborted"
  /\ slog[Len(slog)].op = "print_query_results"
  /\ slog[Len(slog)].raised
  /\ \E j \in Indices(slog) :
       /\ slog[j].op = "print_query_results"
       /\ ~slog[j].raised
       /\ slog[j].executed # <<>>

\* a step of a print_query_results call (the frame's removal excluded)
PrintStep == op = "print_query_results" /\ pc # "done"

\* C12 as stated: a print_query_results call changes nothing but the output
\* stream: the database contents, the configuration and the result it
\* obtained stay as they are.
C12_Original ==
  [][PrintStep =>
       /\ db' = db
       /\ DATABASE_PATH' = DATABASE_PATH /\ DATABASE_CONFIG' = DATABASE_CONFIG
       /\ pc \in {"exit", "print"} => df' = df]_vars

\* C12 amended: a print_query_results call never changes the configuration
\* nor the result it obtained, and its formatting steps (title, rows,
\* truncation message) change nothing but the output stream; the database
\* contents are unchanged when the query is a read-only statement, while a
\* data-modifying query is executed on the read-write connection and does
\* change them.
C12_FormattingOnly ==
  [][PrintStep =>
       /\ DATABASE_PATH' = DATABASE_PATH /\ DATABASE_CONFIG' = DATABASE_CONFIG
       /\ pc \in {"exit", "print"} => df' = df
       /\ pc \in {"title", "print"} => db' = db /\ conns' = conns
       /\ pc \notin {"title", "print"} => out' = out
       /\ args.query.kind # "insert" => db' = db
       /\ db' # db => pc = "execute"]_vars

C12_Witness ==
  /\ Finished("print_query_results")
  /\ outcome.kind = "returned"
  /\ args.query = CountQuery("employees")
  /\ db[DATABASE_PATH].loads > 0
  /\ Len(PrintedRows) = 1

OpenConns == {c \in Indices(conns) : conns[c].open}

\* C13: while a topic script, the db_utils self-test or the loader runs, at
\* most one connection is open at any time, it belongs to the call being
\* executed, and none is open between two calls: no connection is shared.
C13_OneOpenConnection ==
  script # "none" =>
     /\ Cardinality(OpenConns) <= 1
     /\ \A c \in OpenConns : c = conn /\ c = Len(conns)
     /\ pc \in {"script", "done"} => OpenConns = {}
     /\ Len(conns) <= Cardinality({j \in 1..Min(ip, Len(Items(script))) :
                                      Items(script)[j].kind = "call"})

C13_Witness ==
  /\ script = "db_utils"
  /\ op = "table_info"
  /\ Len(conns) = 2
  /\ ~conns[1].open
  /\ conns[2].open

\* C14: no operation retries or recovers. A failed connect is the call's
\* only connect attempt, no SQL is handed to the engine and the connection
\* error reaches the caller; after a failed execute the call makes no
\* further connect or execute, and the failure reaches the caller.
C14_NoRetry ==
  op # "none" =>
     /\ Cardinality(ConnectAttempts) <= 1
     /\ \A k \in ConnectAttempts :
          ~trace[k].ok => /\ trace = << trace[k] >>
                          /\ pc = "done"
                          /\ outcome = Raised("ConnectionError")
     /\ \A k \in FailedSteps :
          /\ \A j \in (k + 1)..Len(trace) : trace[j].ev = "close"
          /\ pc = "done" => outcome.kind = "raised"

C14_Witness ==
  /\ Finished("table_info")
  /\ FailedSteps = {2}
  /\ Len(trace) = 3
  /\ outcome = Raised("QueryError")

\* the executes of the current call
Executes == {k \in Indices(trace) : trace[k].ev = "execute"}

\* the number of positional parameters the caller supplied
Supplied == IF args.params.given THEN Len(args.params.values) ELSE 0

\* the engine's result for the query of the current call. It is taken on the
\* store as the call leaves it: no query of QueryInputs has a result that
\* depends on what the query itself changes.
Produced == EngineExecute(db[DATABASE_PATH], args.query, Supplied)

QueryHelperDone ==
  /\ op \in {"execute_query", "query_to_dataframe"} /\ pc = "done"
  /\ conn # 0

SubmittedOnce ==
  /\ Cardinality(Executes) = 1
  /\ \A k \in Executes :
       /\ trace[k].q = args.query
       /\ trace[k].np = Supplied
       /\ trace[k].path = DATABASE_PATH

\* C15 as stated: a call of a query helper that got its connection submits
\* the text once with the supplied parameters, and returns every row the
\* engine produced, with the column labels of the projection list.
C15_Original ==
  QueryHelperDone =>
     /\ SubmittedOnce
     /\ outcome.kind = "returned" =>
          /\ Produced.ok
          /\ outcome.value = Produced.rows
          /\ cols = Projection(args.query)

\* C15, amended: as above, but only query_to_dataframe returns the column
\* labels; execute_query returns the rows as plain tuples in projection
\* order, without labels.
C15_SubmittedOnceAllRows ==
  QueryHelperDone =>
     /\ SubmittedOnce
     /\ outcome.kind = "returned" =>
          /\ Produced.ok
          /\ outcome.value = Produced.rows
          /\ Len(outcome.value) = Len(Produced.rows)
          /\ cols = IF op = "query_to_dataframe" THEN Projection(args.query) ELSE <<>>
     /\ outcome.kind = "raised" => ~Produced.ok /\ outcome.err = Produced.err

C15_Witness ==
  /\ QueryHelperDone
  /\ op = "query_to_dataframe"
  /\ args.query = RowsQuery(1, 1)
  /\ args.params = Params(<<7>>)
  /\ outcome = Returned(<< <<1>> >>)
  /\ cols = <<"n">>

\* the two query faults: the text has a syntax or semantic error, or it
\* names a table or a column the store does not have
QueryFault(store, q) ==
  \/ q.kind \in {"syntax_error", "bad_column"}
  \/ q.kind \in {"count", "describe", "select", "insert"}
       /\ ~(store.schema /\ q.table \in TableSet)

QueryHelperReturned ==
  op \in {"execute_query", "query_to_dataframe"} /\ pc = "done"

ReadStep ==
  \/ op \in {"table_info", "show_tables", "describe_table"}
  \/ /\ op \in {"execute_query", "query_to_dataframe", "print_query_results"}
     /\ args.query.kind = "count"

\* every row count a read operation has obtained is that of the store
ReadCounts ==
  /\ op = "table_info" =>
       /\ \A k \in Indices(info) : info[k].count = RowCount(db[DATABASE_PATH])
       /\ pc = "describe" => df = << <<RowCount(db[DATABASE_PATH])>> >>
  /\ /\ op \in {"execute_query", "query_to_dataframe", "print_query_results"}
     /\ args.query.kind = "count"
     /\ pc \in {"exit", "print", "done"} /\ conn # 0 /\ pending = "none"
     => df = << <<RowCount(db[DATABASE_PATH])>> >>
  /\ Finished("execute_query") /\ args.query.kind = "count" /\ outcome.kind = "returned"
     => outcome.value = << <<RowCount(db[DATABASE_PATH])>> >>

\* every row count of the loader's verification report is that of the store
ReportCounts ==
  op = "setup_database" =>
     \A k \in LinesOfKind("count") : out[k].n = RowCount(db[SetupPath])

\* C17: read operations leave the store, and so the row count of every
\* table, as it is; the counts they return and the counts of the loader's
\* verification report are the row counts of the store.
C17_IdempotentReads ==
  /\ [](ReadCounts /\ ReportCounts)
  /\ [][ReadStep => db' = db]_vars

C17_Witness ==
  /\ script = "db_utils"
  /\ Finished("table_info")
  /\ outcome.kind = "returned"
  /\ Len(info) = Len(Tables)
  /\ db[DATABASE_PATH].loads = MaxLoads
  /\ \A k \in Indices(info) : info[k].count = MaxLoads * SeedRows + db[DATABASE_PATH].extra

\* the engine and file calls setup_database has made so far are the first
\* ones of its fixed order, whatever the store held
SetupPrefix ==
  \A k \in Indices(trace) :
     trace[k].ev # "close" =>
        /\ k < Len(SetupOrder(SetupPath))
        /\ trace[k].ev = SetupOrder(SetupPath)[k].ev
        /\ trace[k].q = SetupOrder(SetupPath)[k].q

\* a step of setup_database that executes the data text with success
DataLoaded == op = "setup_database" /\ pc = "exec_data" /\ pc' = "verify"

\* C18: setup_database does the same on a store that is loaded already as
\* on a new one. It makes no check and no cleanup: its calls are those of
\* its fixed order, and no step takes rows away. A run ends with an
\* exception (after a connect, with the diagnostic printed and the
\* connection closed) or has executed the data text, which adds the seed
\* rows to those the store holds.
C18_NotIdempotent ==
  /\ [](op = "setup_database" =>
          /\ SetupPrefix
          /\ pc = "done" =>
               /\ outcome.kind = "returned" =>
                    /\ trace = SetupOrder(SetupPath)
                    /\ \A k \in LinesOfKind("count") :
                         out[k].n = db[SetupPath].loads * SeedRows + db[SetupPath].extra
               /\ outcome.kind = "raised" /\ conn # 0 =>
                    /\ LinesOfKind("error") # {}
                    /\ ~conns[conn].open)
  /\ [][op = "setup_database" =>
          /\ db'[SetupPath].loads >= db[SetupPath].loads
          /\ db'[SetupPath].extra = db[SetupPath].extra
          /\ db[SetupPath].schema => db'[SetupPath].schema
          /\ DataLoaded <=> db'[SetupPath].loads = db[SetupPath].loads + 1
          /\ ~DataLoaded => db'[SetupPath].loads = db[SetupPath].loads]_vars

C18_Witness ==
  /\ Finished("setup_database")
  /\ outcome.kind = "returned"
  /\ args.db_path = None
  /\ db[DATABASE_PATH].loads = 2
  /\ \A k \in LinesOfKind("count") : out[k].n >= 2 * SeedRows
  /\ Cardinality(LinesOfKind("count")) = Len(Tables)

\* the settings the configuration gives a connection
ConfiguredMode ==
  IF "read_only" \in DOMAIN DATABASE_CONFIG THEN DATABASE_CONFIG.read_only ELSE FALSE
ConfiguredOptions ==
  IF "config" \in DOMAIN DATABASE_CONFIG THEN DATABASE_CONFIG.config ELSE <<>>

AsConfigured(c) ==
  /\ conns[c].database = DATABASE_PATH
  /\ conns[c].read_only = ConfiguredMode
  /\ conns[c].config = ConfiguredOptions

\* C19: every connection get_connection has opened, for its caller or for
\* the operation that uses it in a with block, is on DATABASE_PATH, in the
\* access mode of DATABASE_CONFIG['read_only'] (read-write when the key is
\* absent) and with the options of DATABASE_CONFIG['config'] (none when the
\* key is absent); its connect attempts name DATABASE_PATH.
C19_ConnectionAsConfigured ==
  /\ \A c \in held : AsConfigured(c)
  /\ op \in WithOps \cup {"get_connection"} =>
       /\ conn # 0 => AsConfigured(conn)
       /\ \A k \in ConnectAttempts : trace[k].path = DATABASE_PATH

C19_Witness ==
  /\ Finished("get_connection")
  /\ outcome.kind = "returned"
  /\ DOMAIN DATABASE_CONFIG = {"path"}
  /\ conns[conn] = Connect(ConfigPath, FALSE, <<>>)
  /\ conn \in held

C19_WitnessTuned ==
  /\ op = "query_to_dataframe" /\ pc = "execute"
  /\ conns[conn].open
  /\ conns[conn].config = TuningOptions

\* a step of one of the operations that read the configuration
ConfigStep ==
  op \in {"get_connection", "execute_query", "query_to_dataframe", "table_info",
          "print_query_results", "setup_database"}

\* C20: no step of get_connection, execute_query, query_to_dataframe,
\* table_info, print_query_results or setup_database, with or without an
\* explicit db_path, changes DATABASE_PATH or an entry of DATABASE_CONFIG.
C20_ConfigurationFixed ==
  [][ConfigStep =>
       /\ DATABASE_PATH' = DATABASE_PATH
       /\ DATABASE_CONFIG' = DATABASE_CONFIG]_vars

C20_Witness ==
  /\ Finished("setup_database")
  /\ args.db_path = OtherPath
  /\ db[OtherPath].loads > 0
  /\ DATABASE_PATH = ConfigPath
  /\ DATABASE_CONFIG = ConfigPy
  /\ Len(conns) > 1

\* the storage location the caller of setup_database asked for
Requested == IF args.db_path = None THEN DATABASE_PATH ELSE args.db_path

\* C21: setup_database connects to the db_path it is given, and to
\* DATABASE_PATH when none is given; without a db_path its connection has
\* the storage location, access mode and tuning options of a connection of
\* get_connection.
C21_SetupTarget ==
  op = "setup_database" =>
     /\ \A k \in ConnectAttempts : trace[k].path = Requested
     /\ \A k \in Executes : trace[k].path = Requested
     /\ conn # 0 =>
          /\ conns[conn].database = Requested
          /\ args.db_path = None =>
               conns[conn] = [Connect(DATABASE_PATH, ConfiguredMode, ConfiguredOptions)
                                EXCEPT !.open = conns[conn].open]

C21_Witness ==
  /\ Finished("setup_database")
  /\ args.db_path = OtherPath
  /\ outcome.kind = "returned"
  /\ conns[conn].database = OtherPath
  /\ OtherPath # DATABASE_PATH
  /\ \E c \in Indices(conns) : c # conn /\ conns[c].database = DATABASE_PATH

C21_WitnessOmitted ==
  /\ op = "setup_database" /\ pc = "verify"
  /\ args.db_path = None
  /\ conns[conn] = Connect(ConfigPath, FALSE, TuningOptions)

\* C22: once print_query_results is past its first statement, its output
\* starts with the title and an underline of "=" as long as the title when a
\* title was given, and has no title line and no underline when the title
\* is None or empty.
C22_TitleUnderline ==
  op = "print_query_results" =>
     /\ pc = "title" => out = <<>>
     /\ pc # "title" =>
          IF args.title # None /\ args.title # ""
            THEN /\ Len(out) >= 2
                 /\ out[1].kind = "title" /\ out[1].text = args.title
                 /\ out[2].kind = "underline"
                 /\ Len(out[2].text) = Len(args.title)
                 /\ out[2].text = Repeat("=", Len(args.title))
                 /\ LinesOfKind("title") = {1}
                 /\ LinesOfKind("underline") = {2}
            ELSE /\ LinesOfKind("title") = {}
                 /\ LinesOfKind("underline") = {}

C22_Witness ==
  /\ Finished("print_query_results")
  /\ outcome.kind = "returned"
  /\ args.title = "Top"
  /\ out[2].text = "==="
  /\ Len(out) > 2

C22_WitnessEmpty ==
  /\ Finished("print_query_results")
  /\ outcome.kind = "returned"
  /\ args.title = ""
  /\ out[1].kind = "rows"

\* a store the standard files were loaded into once, starting empty, and
\* that nothing else has written to
LoadedOnce(store) == store.schema /\ store.loads = 1 /\ store.extra = 0

\* the current call is SELECT COUNT(*) FROM employees through a query helper
\* or the printer
CountsEmployees ==
  /\ op \in {"execute_query", "query_to_dataframe", "print_query_results"}
  /\ args.query = CountQuery("employees")

\* C23: on a store loaded once from empty, SELECT COUNT(*) FROM employees
\* gets its result whenever it reaches the engine with no parameters, the
\* result is one row of one column holding the number of employees inserts
\* of the seed file, and the loader's report on such a store states the same
\* number for employees.
C23_EndToEndCount ==
  /\ (CountsEmployees /\ pc = "done" /\ LoadedOnce(db[DATABASE_PATH])) =>
       /\ conn # 0 /\ ~ParamsTruthy(args.params) => outcome.kind = "returned"
       /\ outcome.kind = "returned" =>
            /\ Len(df) = 1 /\ Len(df[1]) = 1
            /\ df[1][1] = SeedRows
            /\ op # "print_query_results" => outcome.value = << <<SeedRows>> >>
            /\ op = "print_query_results" /\ args.limit >= 1 =>
                 PrintedRows = << <<SeedRows>> >>
  /\ (Finished("setup_database") /\ outcome.kind = "returned"
        /\ LoadedOnce(db[Requested])) =>
       /\ \E k \in LinesOfKind("count") : out[k].text = "employees"
       /\ \A k \in LinesOfKind("count") :
            out[k].text = "employees" => out[k].n = SeedRows

C23_Witness ==
  /\ script = "03_aggregation"
  /\ CountsEmployees /\ pc = "done"
  /\ LoadedOnce(db[DATABASE_PATH])
  /\ outcome.kind = "returned"
  /\ PrintedRows = << <<SeedRows>> >>

C23_WitnessReport ==
  /\ Finished("setup_database") /\ outcome.kind = "returned"
  /\ LoadedOnce(db[Requested])
  /\ \E k \in LinesOfKind("count") : out[k].text = "employees" /\ out[k].n = SeedRows

\* the current call failed reading or executing the schema
SchemaPhaseFailed ==
  \E k \in FailedSteps : trace[k].path = "schema.sql" \/ trace[k].q = SchemaSql

\* C24: from the failure of the schema read or the schema execution on,
\* setup_database does not open the data file, hands no data text and no
\* count query to the engine and prints no line of the report.
C24_SchemaFailureStops ==
  (op = "setup_database" /\ SchemaPhaseFailed) =>
     /\ \A k \in Indices(trace) :
          /\ trace[k].path # "data.sql"
          /\ trace[k].ev = "execute" => trace[k].q = SchemaSql /\ ~trace[k].ok
     /\ \A k \in FailedSteps : \A j \in (k + 1)..Len(trace) : trace[j].ev = "close"
     /\ LinesOfKind("count") = {}
     /\ \A k \in Indices(out) :
          out[k].text \notin {"Tables created successfully", "Loading data...",
                              "Data loaded successfully",
                              "Database setup complete! Record counts:"}
     /\ pc \in {"except", "finally", "done"}

C24_Witness ==
  /\ Finished("setup_database")
  /\ \E k \in FailedSteps : trace[k].q = SchemaSql
  /\ outcome = Raised("QueryError")
  /\ out[Len(out)].kind = "error"

\* the current call failed after its schema execution had succeeded
LoadFailed == op = "setup_database" /\ Succeeded(SchemaSql) /\ FailedSteps # {}

\* C25: no rollback. Once the schema execution has succeeded, no later step
\* of setup_database takes anything out of the store: the only step that
\* changes it is a successful data execution, and the except and finally
\* clauses leave it as it is. A call whose load or verification fails has
\* re-raised and closed its connection with the tables still in the store.
C25_NoRollback ==
  /\ [](LoadFailed /\ pc = "done" =>
          /\ outcome.kind = "raised"
          /\ ~conns[conn].open
          /\ LinesOfKind("error") # {}
          /\ \A k \in FailedSteps : trace[k].path = "data.sql" \/ trace[k].q.kind = "count"
                                        \/ trace[k].q = DataSql)
  /\ [][op = "setup_database" /\ Succeeded(SchemaSql) =>
          /\ db[Requested].schema => db'[Requested].schema
          /\ db'[Requested].loads >= db[Requested].loads
          /\ pc \in {"except", "finally", "done"} => db' = db
          /\ db' # db => pc = "exec_data"]_vars

C25_Witness ==
  /\ LoadFailed /\ pc = "done"
  /\ \E k \in FailedSteps : trace[k].q = DataSql
  /\ db[Requested].schema
  /\ db[Requested].loads = 0
  /\ ~conns[conn].open

\* the engine calls of a table_info that goes through: for each table in
\* list order its count and its describe
TableInfoOrder ==
  [k \in 1..(2 * Len(Tables)) |->
     IF k % 2 = 1 THEN CountQuery(Tables[(k + 1) \div 2])
                  ELSE DescribeQuery(Tables[k \div 2])]

\* C26: a table_info that returns gives one entry per hard-coded table, in
\* list order, each with the row count and the column names of its table,
\* all obtained on the one connection of the call; a table_info whose count
\* or describe query fails returns nothing, the failure reaches the caller,
\* and the connection is closed.
C26_TableInfoAllOrNothing ==
  Finished("table_info") =>
     /\ outcome.kind \in {"returned", "raised"}
     /\ Cardinality(ConnectAttempts) = 1
     /\ conn # 0 => ~conns[conn].open
     /\ \A k \in Executes : trace[k].path = conns[conn].database
     /\ outcome.kind = "returned" =>
          /\ Len(Tables) = 7
          /\ Len(outcome.value) = Len(Tables)
          /\ \A k \in Indices(Tables) :
               /\ outcome.value[k].table = Tables[k]
               /\ outcome.value[k].count = RowCount(db[DATABASE_PATH])
               /\ outcome.value[k].columns = <<Tables[k] \o "_id", Tables[k] \o "_name">>
          /\ Executed = TableInfoOrder
          /\ FailedSteps = {}
     /\ outcome.kind = "raised" =>
          /\ outcome.value = <<>>
          /\ conn = 0 \/ FailedSteps # {}
          /\ \A k \in FailedSteps : outcome.err = ErrorOf(trace[k])
     /\ FailedSteps # {} \/ conn = 0 => outcome.kind = "raised"

C26_Witness ==
  /\ Finished("table_info")
  /\ outcome.kind = "returned"
  /\ Len(outcome.value) = 7
  /\ outcome.value[6].table = "employees"
  /\ Len(trace) = 16

C26_WitnessFailure ==
  /\ Finished("table_info")
  /\ FailedSteps # {}
  /\ outcome = Raised("QueryError")
  /\ ~conns[conn].open

\* positions in the output of the lines with text t
LinesWith(t) == {k \in Indices(out) : out[k].kind = "text" /\ out[k].text = t}

\* every line with text a is printed before every line with text b
Before(a, b) == \A k \in LinesWith(a), l \in LinesWith(b) : k < l

\* C27: in setup_database each success marker is in the output exactly when
\* its execution has returned without error, and before the next phase's
\* first line; the diagnostic is printed at most once, as the last line, and
\* not once the report has its line for every table.
C27_SuccessMarkers ==
  op = "setup_database" =>
     /\ LinesWith("Tables created successfully") # {} <=> Succeeded(SchemaSql)
     /\ LinesWith("Data loaded successfully") # {} <=> Succeeded(DataSql)
     /\ Cardinality(LinesWith("Tables created successfully")) <= 1
     /\ Cardinality(LinesWith("Data loaded successfully")) <= 1
     /\ Before("Creating tables...", "Tables created successfully")
     /\ Before("Tables created successfully", "Loading data...")
     /\ Before("Loading data...", "Data loaded successfully")
     /\ Before("Data loaded successfully", "Database setup complete! Record counts:")
     /\ \A k \in LinesOfKind("count") :
          \A l \in LinesWith("Database setup complete! Record counts:") : l < k
     /\ LinesOfKind("count") # {} => LinesWith("Data loaded successfully") # {}
     /\ Cardinality(LinesOfKind("error")) <= 1
     /\ LinesOfKind("error") \subseteq {Len(out)}
     /\ LinesOfKind("error") # {} <=> FailedSteps # {} /\ pc \in {"finally", "done"}
     /\ Cardinality(LinesOfKind("count")) = Len(Tables) => LinesOfKind("error") = {}

C27_Witness ==
  /\ Finished("setup_database")
  /\ \E k \in FailedSteps : trace[k].q = DataSql
  /\ LinesWith("Tables created successfully") # {}
  /\ LinesWith("Data loaded successfully") = {}
  /\ Cardinality(LinesOfKind("error")) = 1

\* statements of the running script that printed the loader's closing line
ReadyLines ==
  {j \in Indices(slog) : slog[j].op = "print"
                           /\ slog[j].lines[1].text = "HR database is ready for practice!"}

\* C28: the loader script prints its closing line only after its call of
\* setup_database has returned normally, having executed the schema text,
\* the data text and the seven counts and printed the seven report lines,
\* with no connection left open; a loader whose setup_database raised is
\* aborted without the line.
C28_ReadyOnlyAfterSuccess ==
  script = "setup_database" =>
     /\ \A j \in ReadyLines :
          /\ j = 2
          /\ slog[1].op = "setup_database"
          /\ ~slog[1].raised
          /\ slog[1].executed = <<SchemaSql, DataSql>>
                                  \o [k \in 1..Len(Tables) |-> CountQuery(Tables[k])]
          /\ Cardinality({l \in Indices(slog[1].lines) : slog[1].lines[l].kind = "count"})
               = Len(Tables)
          /\ \A l \in Indices(slog[1].lines) : slog[1].lines[l].kind # "error"
          /\ OpenConns = {}
          /\ sstatus \in {"running", "finished"}
     /\ sstatus = "aborted" =>
          /\ ReadyLines = {}
          /\ Len(slog) = 1 /\ slog[1].raised
     /\ sstatus = "finished" => ReadyLines = {2}
     /\ \A j \in Indices(slog) : slog[j].raised => ReadyLines = {}

C28_Witness ==
  /\ script = "setup_database"
  /\ sstatus = "finished"
  /\ ReadyLines = {2}
  /\ ~slog[1].raised
  /\ db[DATABASE_PATH].loads > 0

C28_WitnessFailure ==
  /\ script = "setup_database"
  /\ sstatus = "aborted"
  /\ slog[1].raised
  /\ Len(slog[1].executed) > 2
====
